---- MODULE Spec2Model ----
(***************************************************************************)
(* A model of src/quiz-engine.js (class QuizEngine): the answer grader     *)
(* (isAnswerCorrect), the shuffle-state engine (shuffleArrayDifferently,   *)
(* shuffleTrueFalseDifferently) and the session controller (renderQuestion,*)
(* checkAnswer, nextQuestion, previousQuestion).                           *)
(*                                                                         *)
(* JavaScript strings are sequences of one-character strings, so that      *)
(* trim, toLowerCase, parseInt and number formatting are computed rather   *)
(* than assumed.  A JavaScript value is a record [t |-> tag, v |-> payload]*)
(* with tags "undefined", "null", "bool", "num", "nan", "str", "list"      *)
(* (an Array) and "map" (a plain object used as a dictionary).             *)
(***************************************************************************)
EXTENDS Integers, Sequences, FiniteSets, TLC

\* ------------------------------------------------------------------------
\* JavaScript values
\* ------------------------------------------------------------------------
Undefined == [t |-> "undefined", v |-> 0]
Null == [t |-> "null", v |-> 0]
NaN == [t |-> "nan", v |-> 0]
Bool(b) == [t |-> "bool", v |-> b]
Num(n) == [t |-> "num", v |-> n]
Str(s) == [t |-> "str", v |-> s]
List(s) == [t |-> "list", v |-> s]
Map(f) == [t |-> "map", v |-> f]

\* The ! operator's view of a value: undefined, null, NaN, 0, false and ''
\* are falsy; every Array and object is truthy.
Falsy(x) ==
    \/ x.t \in {"undefined", "null", "nan"}
    \/ x.t = "bool" /\ x.v = FALSE
    \/ x.t = "num" /\ x.v = 0
    \/ x.t = "str" /\ x.v = <<>>

\* x === y for the primitive values the engine compares.
StrictEq(x, y) == x.t = y.t /\ x.t # "nan" /\ x.v = y.v

\* ------------------------------------------------------------------------
\* Strings
\* ------------------------------------------------------------------------
UpperLetters == <<"A","B","C","D","E","F","G","H","I","J","K","L","M",
                  "N","O","P","Q","R","S","T","U","V","W","X","Y","Z">>
LowerLetters == <<"a","b","c","d","e","f","g","h","i","j","k","l","m",
                  "n","o","p","q","r","s","t","u","v","w","x","y","z">>
DigitChars == <<"0","1","2","3","4","5","6","7","8","9">>

IndexIn(c, seq) ==
    IF \E i \in DOMAIN seq : seq[i] = c
    THEN CHOOSE i \in DOMAIN seq : seq[i] = c
    ELSE 0

LowerChar(c) ==
    IF IndexIn(c, UpperLetters) # 0 THEN LowerLetters[IndexIn(c, UpperLetters)] ELSE c

toLowerCase(s) == [i \in DOMAIN s |-> LowerChar(s[i])]

IsSpace(c) == c = " "

RECURSIVE trimStart(_)
trimStart(s) ==
    IF s # <<>> /\ IsSpace(Head(s)) THEN trimStart(Tail(s)) ELSE s

RECURSIVE trimEnd(_)
trimEnd(s) ==
    IF s # <<>> /\ IsSpace(s[Len(s)]) THEN trimEnd(SubSeq(s, 1, Len(s) - 1)) ELSE s

trim(s) == trimEnd(trimStart(s))

IsDigit(c) == IndexIn(c, DigitChars) # 0
DigitVal(c) == IndexIn(c, DigitChars) - 1

\* The value of the longest prefix of digits of s, acc being the value of
\* the digits already read.
RECURSIVE digitsValue(_, _)
digitsValue(s, acc) ==
    IF s # <<>> /\ IsDigit(Head(s))
    THEN digitsValue(Tail(s), 10 * acc + DigitVal(Head(s)))
    ELSE acc

\* parseInt(x): String(x), leading white space skipped, an optional sign,
\* then the longest prefix of decimal digits; NaN when there is no digit
\* (which is the case of "null" and "undefined").
parseInt(x) ==
    IF x.t = "num" THEN x
    ELSE IF x.t # "str" THEN NaN
    ELSE LET s == trimStart(x.v)
             neg == s # <<>> /\ Head(s) = "-"
             body == IF s # <<>> /\ Head(s) \in {"-", "+"} THEN Tail(s) ELSE s
         IN  IF body = <<>> \/ ~IsDigit(Head(body)) THEN NaN
             ELSE Num(IF neg THEN 0 - digitsValue(body, 0) ELSE digitsValue(body, 0))

\* `${n}` for an integer n.
RECURSIVE natToString(_)
natToString(n) ==
    IF n < 10 THEN <<DigitChars[n + 1]>>
    ELSE natToString(n \div 10) \o <<DigitChars[(n % 10) + 1]>>

numToString(n) == IF n < 0 THEN <<"-">> \o natToString(0 - n) ELSE natToString(n)

\* Boolean.prototype.toString
boolToString(b) == IF b THEN <<"t","r","u","e">> ELSE <<"f","a","l","s","e">>

\* ------------------------------------------------------------------------
\* Sequences
\* ------------------------------------------------------------------------
Range(s) == {s[i] : i \in DOMAIN s}

\* All sequences over S of length at most n.
SeqsUpTo(S, n) == UNION {[1..k -> S] : k \in 0..n}

\* Sequences without a repeated element.
NoDup(s) == \A i, j \in DOMAIN s : i # j => s[i] # s[j]

\* Array.prototype.includes
includes(arr, x) == \E i \in DOMAIN arr : arr[i] = x

\* ------------------------------------------------------------------------
\* Questions and options
\* ------------------------------------------------------------------------
\* A question of quizData.questions.  correctAnswer is Num (multiple-choice),
\* Bool (true-false), List of integers (multiple-answer), Str or List of
\* strings (identification, text), List of slots, each a Str or a List of
\* strings (enumeration).  correctMatches is a Map from match label to item,
\* or Undefined.  questionOptions maps the overridden option names to their
\* values.
Question(type, opts, correctAnswer, items, matches, correctMatches, questionOptions) ==
    [type |-> type, options |-> opts, correctAnswer |-> correctAnswer,
     items |-> items, matches |-> matches, correctMatches |-> correctMatches,
     questionOptions |-> questionOptions]

OptionNames == {"shuffleAnswers", "caseSensitive", "orderSensitive",
                "shuffleChoices", "shuffleMatches", "unequalList"}

\* The defaults of the constructor: quizData.options?.x ?? default.
DefaultOptions ==
    [shuffleAnswers |-> FALSE, caseSensitive |-> FALSE, orderSensitive |-> TRUE,
     shuffleChoices |-> FALSE, shuffleMatches |-> FALSE, unequalList |-> FALSE]

\* question.questionOptions?.x ?? this.globalOptions.x, for every option x.
getQuestionOptions(question, globals) ==
    [n \in OptionNames |->
        IF n \in DOMAIN question.questionOptions
        THEN question.questionOptions[n]
        ELSE globals[n]]

\* ------------------------------------------------------------------------
\* The grader
\* ------------------------------------------------------------------------
\* compareFunc with the caseSensitive option ignored.
compareFuncAlwaysFolded(caseSensitive, a, b) == toLowerCase(a) = toLowerCase(b)

\* compareFunc / enumCompare: exact when caseSensitive, case-folded otherwise.
compareFunc(caseSensitive, a, b) ==
    IF caseSensitive THEN a = b ELSE toLowerCase(a) = toLowerCase(b)

\* The strings a slot accepts: Array.isArray(slot) ? slot : [slot].
answerGroup(slot) == IF slot.t = "list" THEN slot.v ELSE <<slot.v>>

\* allAcceptableAnswers: the slots' strings, flattened in order.
RECURSIVE allAcceptableAnswers(_)
allAcceptableAnswers(slots) ==
    IF slots = <<>> THEN <<>>
    ELSE answerGroup(Head(slots)) \o allAcceptableAnswers(Tail(slots))

Min(S) == CHOOSE x \in S : \A y \in S : x <= y

\* The first loop of the order-insensitive branch: every user answer takes
\* the first acceptable string that is not yet in usedAnswers and compares
\* equal; usedAnswers is a Set of strings.
RECURSIVE allUserAnswersValid(_, _, _, _)
allUserAnswersValid(userAnswer, acceptable, usedAnswers, caseSensitive) ==
    IF userAnswer = <<>> THEN TRUE
    ELSE LET hits == {i \in DOMAIN acceptable :
                        /\ acceptable[i] \notin usedAnswers
                        /\ compareFunc(caseSensitive, acceptable[i], Head(userAnswer))}
         IN  IF hits = {} THEN FALSE
             ELSE allUserAnswersValid(Tail(userAnswer), acceptable,
                                      usedAnswers \cup {acceptable[Min(hits)]},
                                      caseSensitive)

\* The second loop: each user answer adds the first slot that accepts it.
uniqueGroups(userAnswer, slots, caseSensitive) ==
    {Min({i \in DOMAIN slots :
            \E a \in Range(answerGroup(slots[i])) :
                compareFunc(caseSensitive, a, userAnswer[u])}) :
        u \in {u \in DOMAIN userAnswer :
                 \E i \in DOMAIN slots :
                    \E a \in Range(answerGroup(slots[i])) :
                        compareFunc(caseSensitive, a, userAnswer[u])}}

\* enumerationOrdered without its length test.
enumerationOrderedNoLength(userAnswer, slots, caseSensitive) ==
    \A i \in DOMAIN userAnswer \cap DOMAIN slots :
        \E a \in Range(answerGroup(slots[i])) :
            compareFunc(caseSensitive, a, userAnswer[i])

\* case 'enumeration', options.orderSensitive
enumerationOrdered(userAnswer, slots, caseSensitive) ==
    /\ Len(userAnswer) = Len(slots)
    /\ \A i \in DOMAIN userAnswer :
          \E a \in Range(answerGroup(slots[i])) :
              compareFunc(caseSensitive, a, userAnswer[i])

\* case 'enumeration', !options.orderSensitive
enumerationUnordered(userAnswer, slots, caseSensitive) ==
    IF Len(userAnswer) > Len(slots) THEN FALSE
    ELSE IF ~allUserAnswersValid(userAnswer, allAcceptableAnswers(slots), {},
                                 caseSensitive)
    THEN FALSE
    ELSE /\ Cardinality(uniqueGroups(userAnswer, slots, caseSensitive))
                = Len(userAnswer)
         /\ Len(userAnswer) <= Len(slots)

JSBool(b) == IF b THEN "true" ELSE "false"

\* case 'multiple-choice'
gradeMultipleChoice(userAnswer, question) ==
    JSBool(StrictEq(parseInt(userAnswer), question.correctAnswer))

\* case 'true-false': correctAnswer.toString() throws on undefined and null.
gradeTrueFalse(userAnswer, question) ==
    IF question.correctAnswer.t \in {"undefined", "null"} THEN "TypeError"
    ELSE JSBool(StrictEq(userAnswer, Str(boolToString(question.correctAnswer.v))))

\* gradeMultipleAnswer without its length test.
gradeMultipleAnswerNoLength(userAnswer, question) ==
    IF Falsy(userAnswer) \/ Falsy(question.correctAnswer) THEN "false"
    ELSE JSBool(\A i \in DOMAIN userAnswer.v :
                   includes(question.correctAnswer.v, userAnswer.v[i]))

\* case 'multiple-answer'
gradeMultipleAnswer(userAnswer, question) ==
    IF Falsy(userAnswer) \/ Falsy(question.correctAnswer) THEN "false"
    ELSE JSBool(/\ Len(userAnswer.v) = Len(question.correctAnswer.v)
                /\ \A i \in DOMAIN userAnswer.v :
                      includes(question.correctAnswer.v, userAnswer.v[i]))

\* case 'identification', case 'text'
gradeText(userAnswer, question, options) ==
    IF Falsy(userAnswer) THEN "false"
    ELSE IF question.correctAnswer.t = "list"
    THEN JSBool(\E i \in DOMAIN question.correctAnswer.v :
                   compareFunc(options.caseSensitive,
                               question.correctAnswer.v[i], userAnswer.v))
    ELSE JSBool(compareFunc(options.caseSensitive,
                            question.correctAnswer.v, userAnswer.v))

\* case 'enumeration'
gradeEnumeration(userAnswer, question, options) ==
    IF Falsy(userAnswer) \/ Len(userAnswer.v) = 0 THEN "false"
    ELSE IF options.orderSensitive
    THEN JSBool(enumerationOrdered(userAnswer.v, question.correctAnswer.v,
                                   options.caseSensitive))
    ELSE JSBool(enumerationUnordered(userAnswer.v, question.correctAnswer.v,
                                     options.caseSensitive))

\* gradeMatching without its final comparison of the entry counts.
gradeMatchingNoCount(userAnswer, question) ==
    IF Falsy(question.correctMatches) THEN "false"
    ELSE IF userAnswer.t \in {"undefined", "null"} THEN "TypeError"
    ELSE JSBool(\A k \in DOMAIN question.correctMatches.v :
                   /\ k \in DOMAIN userAnswer.v
                   /\ userAnswer.v[k] = question.correctMatches.v[k])

\* case 'matching': userAnswer[matchKey] and Object.keys(userAnswer) throw a
\* TypeError when userAnswer is null or undefined.
gradeMatching(userAnswer, question) ==
    IF Falsy(question.correctMatches) THEN "false"
    ELSE IF userAnswer.t \in {"undefined", "null"} THEN "TypeError"
    ELSE IF \E k \in DOMAIN question.correctMatches.v :
               \/ k \notin DOMAIN userAnswer.v
               \/ userAnswer.v[k] # question.correctMatches.v[k]
    THEN "false"
    ELSE JSBool(Cardinality(DOMAIN userAnswer.v)
                    = Cardinality(DOMAIN question.correctMatches.v))

\* isAnswerCorrect(userAnswer, question, options): "true", "false", or
\* "TypeError" when the call throws.
isAnswerCorrect(userAnswer, question, options) ==
    CASE question.type = "multiple-choice" -> gradeMultipleChoice(userAnswer, question)
      [] question.type = "true-false" -> gradeTrueFalse(userAnswer, question)
      [] question.type = "multiple-answer" -> gradeMultipleAnswer(userAnswer, question)
      [] question.type \in {"identification", "text"} ->
            gradeText(userAnswer, question, options)
      [] question.type = "enumeration" -> gradeEnumeration(userAnswer, question, options)
      [] question.type = "matching" -> gradeMatching(userAnswer, question)
      [] OTHER -> "false"

\* ------------------------------------------------------------------------
\* State
\* ------------------------------------------------------------------------
VARIABLES
    quizData,               \* this.quizData: [questions, options]
    currentQuestionIndex,   \* this.currentQuestionIndex (0-based)
    score,                  \* this.score
    userAnswers,            \* this.userAnswers: index -> recorded answer
    isQuizComplete,         \* this.isQuizComplete
    previousShuffleStates,  \* this.previousShuffleStates: state key -> value
    shuffledIndices,        \* this.shuffledIndices: key -> index mapping
    dom,                    \* the rendered question's inputs
    inputTimeout,           \* TRUE while the debounce timer is pending
    pc,                     \* position of the running handler, "idle" if none
    call,                   \* locals of the running handler
    gQuestion,              \* the grader's arguments and result, when
    gUserAnswer,            \* isAnswerCorrect is applied to inputs of its
    gOptions,               \* whole domain
    gResult,
    gCalls                  \* the number of calls made with these arguments

sessionVars == <<quizData, currentQuestionIndex, score, userAnswers, isQuizComplete,
                 previousShuffleStates, shuffledIndices, dom, inputTimeout, pc, call>>
graderVars == <<gQuestion, gUserAnswer, gOptions, gResult, gCalls>>
vars == <<sessionVars, graderVars>>

\* ------------------------------------------------------------------------
\* Bounds and input pools
\* ------------------------------------------------------------------------
MaxOptions == 3      \* options of a choice question
MaxSlots == 2        \* slots of an enumeration question
MaxAlt == 2          \* acceptable strings of an identification question
MaxCalls == 2        \* calls of the grader with the same arguments

Wa == <<"a">>
WA == <<"A">>
Wb == <<"b">>
WaB == <<"a", "B">>
WAb == <<"A", "b">>
Words == {Wa, WA, Wb}
TextWords == Words \cup {WaB, WAb}

LabelA == <<"A">>
LabelB == <<"B">>
ItemX == <<"X">>
ItemY == <<"Y">>
\* renderMatching's dummyItems and dummyMatches
dummyItems == << <<"D","i","s","t","r","a","c","t","o","r"," ","A">>,
                 <<"D","i","s","t","r","a","c","t","o","r"," ","B">> >>
dummyMatches == << <<"E","x","t","r","a"," ","O","p","t","i","o","n"," ","1">>,
                   <<"E","x","t","r","a"," ","O","p","t","i","o","n"," ","2">> >>

NoOverrides == [n \in {} |-> FALSE]
OptionLabels(n) == [i \in 1..n |-> <<"o">> \o natToString(i - 1)]

\* All maps from a subset of K to V.
MapsFrom(K, V) == UNION {[D -> V] : D \in SUBSET K}

\* Index lists with an index outside 0..MaxOptions-1.
OutOfRangeIndexLists == {<<MaxOptions>>, <<0, MaxOptions>>, <<0 - 1>>}

SlotPool == {Str(Wa), Str(WA), Str(Wb), List(<<Wa, Wb>>), List(<<Wb, Wa>>),
             List(<<Wa, WA>>), List(<<Wb>>)}

GraderQuestions ==
       {Question("multiple-choice", OptionLabels(MaxOptions), Num(c), <<>>, <<>>,
                 Undefined, NoOverrides) : c \in (0 - 1)..MaxOptions}
  \cup {Question("true-false", <<>>, Bool(b), <<>>, <<>>, Undefined, NoOverrides) :
            b \in BOOLEAN}
  \cup {Question("multiple-answer", OptionLabels(MaxOptions), List(c), <<>>, <<>>,
                 Undefined, NoOverrides) :
            c \in {s \in SeqsUpTo(0..(MaxOptions - 1), MaxOptions) : NoDup(s)}
                    \cup OutOfRangeIndexLists}
  \cup {Question(ty, <<>>, c, <<>>, <<>>, Undefined, NoOverrides) :
            ty \in {"identification", "text"},
            c \in {Str(w) : w \in TextWords}
                    \cup {List(l) : l \in SeqsUpTo(TextWords, MaxAlt)}}
  \cup {Question("enumeration", <<>>, List(sl), <<>>, <<>>, Undefined, NoOverrides) :
            sl \in SeqsUpTo(SlotPool, MaxSlots)}
  \cup {Question("matching", <<>>, Undefined, <<ItemX, ItemY>>, <<LabelA, LabelB>>,
                 cm, NoOverrides) :
            cm \in {Undefined}
                     \cup {Map(f) : f \in MapsFrom({LabelA, LabelB}, {ItemX, ItemY})}}
  \cup {Question("essay", <<>>, Str(Wa), <<>>, <<>>, Undefined, NoOverrides)}

\* The user answers the grader is applied to: those getUserAnswer can build
\* for the question's type, and the absent ones (null, undefined).
GraderAnswers(question) ==
    {Null, Undefined} \cup
    CASE question.type = "multiple-choice" ->
            {Str(numToString(i)) : i \in (0 - 1)..MaxOptions}
      [] question.type = "true-false" -> {Str(boolToString(b)) : b \in BOOLEAN}
      [] question.type = "multiple-answer" ->
            {List(s) : s \in {s \in SeqsUpTo(0..(MaxOptions - 1), MaxOptions) : NoDup(s)}
                                \cup OutOfRangeIndexLists}
      [] question.type \in {"identification", "text"} ->
            {Str(w) : w \in TextWords \cup {<<>>}}
      [] question.type = "enumeration" ->
            {List(s) : s \in SeqsUpTo(Words, MaxSlots + 1)}
      [] question.type = "matching" ->
            {Map(f) : f \in MapsFrom({LabelA, LabelB, dummyMatches[1]},
                                     {ItemX, ItemY, dummyItems[1]})}
      [] OTHER -> {Str(Wa), List(<<>>), Map(<<>>)}

\* ------------------------------------------------------------------------
\* The session after the constructor's assignments
\* ------------------------------------------------------------------------
EmptyMap == <<>>

\* No question is rendered.
NoDom == [kind |-> "none", labels |-> <<>>, values |-> <<>>, checked |-> {},
          text |-> <<>>, inputs |-> <<>>, items |-> <<>>, zones |-> <<>>,
          dropped |-> <<>>]

\* The locals of shuffleArrayDifferently / shuffleTrueFalseDifferently and the
\* place renderQuestion resumes at (phase).  prior, exhausted and
\* allEqualPrior record what the call saw: the key's value at entry, whether
\* the loop left at attempts = maxAttempts, and whether every draw so far
\* equalled prior.
NoCall == [fn |-> "none", phase |-> "none", stateKey |-> <<>>, n |-> 0,
           attempts |-> 0, newIndices |-> <<>>, prior |-> Undefined,
           result |-> Undefined, exhausted |-> FALSE, allEqualPrior |-> TRUE,
           displayItems |-> <<>>]

\* this.globalOptions: quizData.options?.x ?? default, for every option x.
globalOptions(quiz) ==
    [n \in OptionNames |->
        IF n \in DOMAIN quiz.options THEN quiz.options[n] ELSE DefaultOptions[n]]

\* The constructor, up to its call of init().
Constructed(quiz, atPc) ==
    /\ quizData = quiz
    /\ currentQuestionIndex = 0
    /\ score = 0
    /\ userAnswers = EmptyMap
    /\ isQuizComplete = FALSE
    /\ previousShuffleStates = EmptyMap
    /\ shuffledIndices = EmptyMap
    /\ dom = NoDom
    /\ inputTimeout = FALSE
    /\ pc = atPc
    /\ call = NoCall

\* ------------------------------------------------------------------------
\* Shuffling
\* ------------------------------------------------------------------------
maxAttempts == 50
RandomSteps == 6     \* Math.random() returns k / RandomSteps, k in 0..RandomSteps-1

RandomValues == 0..(RandomSteps - 1)

\* Math.floor(Math.random() * m) for the random value k / RandomSteps.
floorRandomTimes(k, m) == (k * m) \div RandomSteps

\* Math.random() < 0.5
randomBelowHalf(k) == 2 * k < RandomSteps

\* The indices in descending order.
identityIndicesReversed(n) == [i \in 1..n |-> n - i]

\* array.map((_, i) => i), as 0-based indices.
identityIndices(n) == [i \in 1..n |-> i - 1]

\* An exchange that loses the element at position a.
SwapCopy(seq, a, b) == [seq EXCEPT ![a] = seq[b]]

Swap(seq, a, b) == [seq EXCEPT ![a] = seq[b], ![b] = seq[a]]

\* shuffleArray's loop: for (i = length - 1; i > 0; i--) swap shuffled[i] and
\* shuffled[j], j = Math.floor(Math.random() * (i + 1)); rs[i] is the random
\* value drawn at index i.
RECURSIVE fisherYates(_, _, _)
fisherYates(shuffled, i, rs) ==
    IF i <= 0 THEN shuffled
    ELSE fisherYates(Swap(shuffled, i + 1, floorRandomTimes(rs[i], i + 1) + 1),
                     i - 1, rs)

shuffleArray(array, rs) == fisherYates(array, Len(array) - 1, rs)

arraysEqual(arr1, arr2) ==
    IF Len(arr1) # Len(arr2) THEN FALSE
    ELSE \A i \in DOMAIN arr1 : arr1[i] = arr2[i]

\* obj[key]: undefined when the key is absent.
Lookup(obj, key) == IF key \in DOMAIN obj THEN obj[key] ELSE Undefined

\* obj[key] = value
Store(obj, key, value) ==
    [k \in DOMAIN obj \cup {key} |-> IF k = key THEN value ELSE obj[k]]

\* A multiple-choice key that leaves the question index out.
mcKeyNoIndex(i) == <<"m","c","_">>

\* The state keys: `mc_${i}`, `ma_${i}`, `tf_${i}`, `matching_items_${i}`,
\* `matching_matches_${i}`.
mcKey(i) == <<"m","c","_">> \o numToString(i)
maKey(i) == <<"m","a","_">> \o numToString(i)
tfKey(i) == <<"t","f","_">> \o numToString(i)
matchingItemsKey(i) ==
    <<"m","a","t","c","h","i","n","g","_","i","t","e","m","s","_">> \o numToString(i)
matchingMatchesKey(i) ==
    <<"m","a","t","c","h","i","n","g","_","m","a","t","c","h","e","s","_">>
        \o numToString(i)

\* shuffleArrayDifferently returns at once for these lengths.
returnsEarlyNever(n) == FALSE

returnsEarly(n) == n <= 1

\* The while condition of shuffleArrayDifferently, with the step's draw.
loopAgainNoCompare(previous, newIndices, attempts) == FALSE

\* The while condition without its bound on attempts.
loopAgainUnbounded(previous, newIndices, attempts) ==
    /\ ~Falsy(previous)
    /\ previous.t = "list"
    /\ arraysEqual(newIndices, previous.v)

loopAgain(previous, newIndices, attempts) ==
    /\ ~Falsy(previous)
    /\ previous.t = "list"
    /\ arraysEqual(newIndices, previous.v)
    /\ attempts < maxAttempts

\* shuffleTrueFalseDifferently's trueFirst for the stored value and the
\* random value the call would draw.
nextTrueFirstRandom(previousWasTrueFirst, k) == randomBelowHalf(k)

nextTrueFirst(previousWasTrueFirst, k) ==
    IF previousWasTrueFirst.t = "undefined" THEN randomBelowHalf(k)
    ELSE Falsy(previousWasTrueFirst)

\* The call shuffleArrayDifferently(array, stateKey), up to the loop.
EnterShuffle(n, stateKey, phase, displayItems) ==
    /\ UNCHANGED previousShuffleStates
    /\ IF returnsEarly(n)
       THEN /\ pc' = "returned"
            /\ call' = [NoCall EXCEPT !.fn = "array", !.phase = phase,
                          !.stateKey = stateKey, !.n = n,
                          !.displayItems = displayItems,
                          !.prior = Lookup(previousShuffleStates, stateKey),
                          !.result = List(identityIndices(n))]
       ELSE /\ pc' = "shuffle"
            /\ call' = [NoCall EXCEPT !.fn = "array", !.phase = phase,
                          !.stateKey = stateKey, !.n = n,
                          !.displayItems = displayItems,
                          !.prior = Lookup(previousShuffleStates, stateKey)]

\* One iteration of the do-while: a draw, attempts++, the test; on leaving
\* the loop the draw is stored under stateKey and returned.
ShuffleDraw ==
    /\ pc = "shuffle"
    /\ \E rs \in [1..(call.n - 1) -> RandomValues] :
          LET newIndices == shuffleArray(identityIndices(call.n), rs)
              attempts == call.attempts + 1
              previous == Lookup(previousShuffleStates, call.stateKey)
              equalPrior == call.allEqualPrior /\ call.prior.t = "list"
                              /\ newIndices = call.prior.v
          IN  IF loopAgain(previous, newIndices, attempts)
              THEN /\ call' = [call EXCEPT !.attempts = attempts,
                                           !.newIndices = newIndices,
                                           !.allEqualPrior = equalPrior]
                   /\ UNCHANGED <<pc, previousShuffleStates>>
              ELSE /\ previousShuffleStates' =
                          Store(previousShuffleStates, call.stateKey, List(newIndices))
                   /\ call' = [call EXCEPT !.attempts = 0, !.newIndices = <<>>,
                                           !.result = List(newIndices),
                                           !.exhausted = (attempts = maxAttempts),
                                           !.allEqualPrior = equalPrior]
                   /\ pc' = "returned"
    /\ UNCHANGED <<quizData, currentQuestionIndex, score, userAnswers, isQuizComplete,
                   shuffledIndices, dom, inputTimeout, graderVars>>

\* ------------------------------------------------------------------------
\* Rendering
\* ------------------------------------------------------------------------
currentQuestion == quizData.questions[currentQuestionIndex + 1]
currentOptions == getQuestionOptions(currentQuestion, globalOptions(quizData))

TrueFalseLabels(trueFirst) ==
    IF trueFirst THEN << <<"T","r","u","e">>, <<"F","a","l","s","e">> >>
    ELSE << <<"F","a","l","s","e">>, <<"T","r","u","e">> >>

TrueFalseValues(trueFirst) ==
    IF trueFirst THEN <<boolToString(TRUE), boolToString(FALSE)>>
    ELSE <<boolToString(FALSE), boolToString(TRUE)>>

\* renderQuestion's last steps: the markup is written, the listeners are
\* attached, the handler ends.
Rendered(d) ==
    /\ dom' = d
    /\ pc' = "idle"
    /\ call' = NoCall

\* renderMultipleChoice / renderMultipleAnswer from displayOptions on: the
\* mapping is stored and one input per displayed option is written, its
\* value the option's original index.
FinishChoice(key, kind, indexMapping) ==
    /\ shuffledIndices' = Store(shuffledIndices, key, List(indexMapping))
    /\ Rendered([NoDom EXCEPT
                    !.kind = kind,
                    !.labels = [p \in DOMAIN indexMapping |->
                                   currentQuestion.options[indexMapping[p] + 1]],
                    !.values = [p \in DOMAIN indexMapping |->
                                   numToString(indexMapping[p])]])

\* renderTrueFalse's markup for tfOptions.
FinishTrueFalse(trueFirst) ==
    /\ UNCHANGED shuffledIndices
    /\ Rendered([NoDom EXCEPT !.kind = "radio",
                              !.labels = TrueFalseLabels(trueFirst),
                              !.values = TrueFalseValues(trueFirst)])

\* renderMatching from the unequalList test on.
FinishMatching(displayItems, displayMatches) ==
    /\ UNCHANGED shuffledIndices
    /\ IF currentOptions.unequalList
       THEN \E k1, k2 \in RandomValues :
               LET numDummyItems == floorRandomTimes(k1, 2) + 1
                   numDummyMatches == floorRandomTimes(k2, 2) + 1
                   allMatches == displayMatches \o SubSeq(dummyMatches, 1, numDummyMatches)
               IN  Rendered([NoDom EXCEPT
                        !.kind = "matching",
                        !.items = displayItems \o SubSeq(dummyItems, 1, numDummyItems),
                        !.zones = allMatches,
                        !.dropped = [z \in DOMAIN allMatches |-> <<>>]])
       ELSE Rendered([NoDom EXCEPT
                        !.kind = "matching",
                        !.items = displayItems,
                        !.zones = displayMatches,
                        !.dropped = [z \in DOMAIN displayMatches |-> <<>>]])

\* renderMatching from the shuffleMatches test on.
MatchingAfterItems(displayItems) ==
    IF currentOptions.shuffleMatches
    THEN /\ EnterShuffle(Len(currentQuestion.matches),
                         matchingMatchesKey(currentQuestionIndex), "matches",
                         displayItems)
         /\ UNCHANGED <<shuffledIndices, dom>>
    ELSE /\ FinishMatching(displayItems, currentQuestion.matches)
         /\ UNCHANGED previousShuffleStates

\* shuffleTrueFalseDifferently(stateKey)
ShuffleTrueFalse(stateKey) ==
    \E k \in RandomValues :
        LET previousWasTrueFirst == Lookup(previousShuffleStates, stateKey)
            trueFirst == nextTrueFirst(previousWasTrueFirst, k)
        IN  /\ previousShuffleStates' =
                    Store(previousShuffleStates, stateKey, Bool(trueFirst))
            /\ pc' = "returned"
            /\ call' = [NoCall EXCEPT
                          !.fn = "tf", !.phase = "tf", !.stateKey = stateKey,
                          !.prior = previousWasTrueFirst,
                          !.result = Bool(trueFirst)]

\* renderQuestion, from its start to the first shuffle call or, without one,
\* to its end.
RenderQuestion ==
    /\ pc = "render"
    /\ CASE currentQuestion.type = "multiple-choice" ->
              IF currentOptions.shuffleAnswers
              THEN /\ EnterShuffle(Len(currentQuestion.options), mcKey(currentQuestionIndex),
                                   "mc", <<>>)
                   /\ UNCHANGED <<shuffledIndices, dom>>
              ELSE /\ FinishChoice(mcKey(currentQuestionIndex), "radio",
                                   identityIndices(Len(currentQuestion.options)))
                   /\ UNCHANGED previousShuffleStates
         [] currentQuestion.type = "multiple-answer" ->
              IF currentOptions.shuffleAnswers
              THEN /\ EnterShuffle(Len(currentQuestion.options), maKey(currentQuestionIndex),
                                   "ma", <<>>)
                   /\ UNCHANGED <<shuffledIndices, dom>>
              ELSE /\ FinishChoice(maKey(currentQuestionIndex), "checkbox",
                                   identityIndices(Len(currentQuestion.options)))
                   /\ UNCHANGED previousShuffleStates
         [] currentQuestion.type \in {"identification", "text"} ->
              /\ Rendered([NoDom EXCEPT !.kind = "text"])
              /\ UNCHANGED <<previousShuffleStates, shuffledIndices>>
         [] currentQuestion.type = "matching" ->
              IF currentOptions.shuffleChoices
              THEN /\ EnterShuffle(Len(currentQuestion.items),
                                   matchingItemsKey(currentQuestionIndex), "items", <<>>)
                   /\ UNCHANGED <<shuffledIndices, dom>>
              ELSE MatchingAfterItems(currentQuestion.items)
         [] currentQuestion.type = "true-false" ->
              IF currentOptions.shuffleAnswers
              THEN /\ ShuffleTrueFalse(tfKey(currentQuestionIndex))
                   /\ UNCHANGED <<shuffledIndices, dom>>
              ELSE /\ FinishTrueFalse(TRUE)
                   /\ UNCHANGED previousShuffleStates
         [] currentQuestion.type = "enumeration" ->
              /\ Rendered([NoDom EXCEPT
                             !.kind = "enumeration",
                             !.inputs = [i \in 1..Len(currentQuestion.correctAnswer.v) |-> <<>>]])
              /\ UNCHANGED <<previousShuffleStates, shuffledIndices>>
         [] OTHER ->
              /\ Rendered([NoDom EXCEPT !.kind = "unknown"])
              /\ UNCHANGED <<previousShuffleStates, shuffledIndices>>
    /\ UNCHANGED <<quizData, currentQuestionIndex, score, userAnswers, isQuizComplete,
                   inputTimeout, graderVars>>

\* renderQuestion resumed where a shuffle call returned.
RenderContinue ==
    /\ pc = "returned"
    /\ CASE call.phase = "mc" ->
              /\ FinishChoice(mcKey(currentQuestionIndex), "radio", call.result.v)
              /\ UNCHANGED previousShuffleStates
         [] call.phase = "ma" ->
              /\ FinishChoice(maKey(currentQuestionIndex), "checkbox", call.result.v)
              /\ UNCHANGED previousShuffleStates
         [] call.phase = "tf" ->
              /\ FinishTrueFalse(call.result.v)
              /\ UNCHANGED previousShuffleStates
         [] call.phase = "items" ->
              MatchingAfterItems([p \in DOMAIN call.result.v |->
                                     currentQuestion.items[call.result.v[p] + 1]])
         [] call.phase = "matches" ->
              /\ FinishMatching(call.displayItems,
                                [p \in DOMAIN call.result.v |->
                                    currentQuestion.matches[call.result.v[p] + 1]])
              /\ UNCHANGED previousShuffleStates
    /\ UNCHANGED <<quizData, currentQuestionIndex, score, userAnswers, isQuizComplete,
                   inputTimeout, graderVars>>

\* ------------------------------------------------------------------------
\* Reading the answer back from the document
\* ------------------------------------------------------------------------
\* The elements of a set of positions, in document order.
RECURSIVE InOrder(_)
InOrder(S) == IF S = {} THEN <<>> ELSE <<Min(S)>> \o InOrder(S \ {Min(S)})

\* values.map(v => v.trim()).filter(v => v !== '')
RECURSIVE trimmedNonEmpty(_)
trimmedNonEmpty(values) ==
    IF values = <<>> THEN <<>>
    ELSE (IF trim(Head(values)) # <<>> THEN <<trim(Head(values))>> ELSE <<>>)
            \o trimmedNonEmpty(Tail(values))

\* The matches object built zone by zone: a later zone with the same label
\* overwrites an earlier one.
droppedMatches(d) ==
    LET filled == {z \in DOMAIN d.zones : trim(d.dropped[z]) # <<>>}
    IN  [label \in {d.zones[z] : z \in filled} |->
            trim(d.dropped[CHOOSE z \in filled :
                              /\ d.zones[z] = label
                              /\ \A y \in filled : d.zones[y] = label => y <= z])]

\* getUserAnswer(type), reading document d.
getUserAnswer(type, d) ==
    CASE type \in {"multiple-choice", "true-false"} ->
            IF d.kind = "radio" /\ d.checked # {}
            THEN Str(d.values[Min(d.checked)])
            ELSE Null
      [] type = "multiple-answer" ->
            IF d.kind = "checkbox"
            THEN List([p \in DOMAIN InOrder(d.checked) |->
                          parseInt(Str(d.values[InOrder(d.checked)[p]])).v])
            ELSE List(<<>>)
      [] type \in {"identification", "text"} ->
            IF d.kind = "text" THEN Str(trim(d.text)) ELSE Str(<<>>)
      [] type = "enumeration" -> List(trimmedNonEmpty(d.inputs))
      [] type = "matching" -> Map(droppedMatches(d))
      [] OTHER -> Null

\* ------------------------------------------------------------------------
\* checkAnswer
\* ------------------------------------------------------------------------
\* The test that guards the score update, on this.userAnswers[index].
notYetAnsweredAlways(recorded) == TRUE

notYetAnswered(recorded) == Falsy(recorded)

\* checkAnswer() with the document reading d.  A throw of isAnswerCorrect
\* ends the handler before any assignment.
checkAnswer(d) ==
    LET userAnswer == getUserAnswer(currentQuestion.type, d)
        isCorrect == isAnswerCorrect(userAnswer, currentQuestion, currentOptions)
    IN  IF /\ isCorrect # "TypeError"
           /\ notYetAnswered(Lookup(userAnswers, currentQuestionIndex))
        THEN /\ score' = IF isCorrect = "true" THEN score + 1 ELSE score
             /\ userAnswers' = Store(userAnswers, currentQuestionIndex, userAnswer)
        ELSE UNCHANGED <<score, userAnswers>>

\* ------------------------------------------------------------------------
\* The user's events
\* ------------------------------------------------------------------------
\* Strings the user types into a text or enumeration input.
TypedStrings == {<<>>, Wa, WA, Wb, <<" ", "a">>}

Interactive == pc = "idle" /\ ~isQuizComplete

frame == <<quizData, currentQuestionIndex, isQuizComplete, previousShuffleStates,
           shuffledIndices, pc, call, graderVars>>

\* change on a radio button: attachRadioListeners
SelectRadio ==
    /\ Interactive
    /\ dom.kind = "radio"
    /\ \E p \in DOMAIN dom.values :
          /\ p \notin dom.checked
          /\ dom' = [dom EXCEPT !.checked = {p}]
          /\ checkAnswer(dom')
    /\ UNCHANGED <<frame, inputTimeout>>

\* change on a checkbox: attachCheckboxListeners
ToggleCheckbox ==
    /\ Interactive
    /\ dom.kind = "checkbox"
    /\ \E p \in DOMAIN dom.values :
          /\ dom' = [dom EXCEPT !.checked =
                        IF p \in dom.checked THEN dom.checked \ {p}
                        ELSE dom.checked \cup {p}]
          /\ checkAnswer(dom')
    /\ UNCHANGED <<frame, inputTimeout>>

\* input on #textAnswer: the debounce timer is restarted.
TypeText ==
    /\ Interactive
    /\ dom.kind = "text"
    /\ \E v \in TypedStrings :
          /\ v # dom.text
          /\ dom' = [dom EXCEPT !.text = v]
    /\ inputTimeout' = TRUE
    /\ UNCHANGED <<frame, score, userAnswers>>

\* input on an .enumeration-input: the debounce timer is restarted.
TypeEnumeration ==
    /\ Interactive
    /\ dom.kind = "enumeration"
    /\ \E i \in DOMAIN dom.inputs, v \in TypedStrings :
          /\ v # dom.inputs[i]
          /\ dom' = [dom EXCEPT !.inputs[i] = v]
    /\ inputTimeout' = TRUE
    /\ UNCHANGED <<frame, score, userAnswers>>

\* The debounce timer expires: setTimeout(() => this.checkAnswer(), 500).
\* Nothing clears it on navigation or on completion.
DebounceFires ==
    /\ pc = "idle"
    /\ inputTimeout
    /\ inputTimeout' = FALSE
    /\ checkAnswer(dom)
    /\ UNCHANGED <<frame, dom>>

\* drop on a zone: the dragged item's text replaces the zone's content.
DropItem ==
    /\ Interactive
    /\ dom.kind = "matching"
    /\ \E z \in DOMAIN dom.zones, it \in DOMAIN dom.items :
          /\ dom' = [dom EXCEPT !.dropped[z] = dom.items[it]]
          /\ checkAnswer(dom')
    /\ UNCHANGED <<frame, inputTimeout>>

\* click on a filled zone's dropped item: the zone is emptied.
RemoveItem ==
    /\ Interactive
    /\ dom.kind = "matching"
    /\ \E z \in DOMAIN dom.zones :
          /\ trim(dom.dropped[z]) # <<>>
          /\ dom' = [dom EXCEPT !.dropped[z] = <<>>]
          /\ checkAnswer(dom')
    /\ UNCHANGED <<frame, inputTimeout>>

\* ------------------------------------------------------------------------
\* Navigation
\* ------------------------------------------------------------------------
\* showResults replaces the quiz content and sets the flag.
showResults ==
    /\ dom' = [NoDom EXCEPT !.kind = "results"]
    /\ isQuizComplete' = TRUE
    /\ UNCHANGED <<currentQuestionIndex, pc>>

nextQuestion ==
    /\ Interactive
    /\ IF currentQuestionIndex < Len(quizData.questions) - 1
       THEN /\ currentQuestionIndex' = currentQuestionIndex + 1
            /\ pc' = "render"
            /\ UNCHANGED <<dom, isQuizComplete>>
       ELSE showResults
    /\ UNCHANGED <<quizData, score, userAnswers, previousShuffleStates,
                   shuffledIndices, inputTimeout, call, graderVars>>

\* previousQuestion without its test of the index.
previousQuestionUnguarded ==
    /\ Interactive
    /\ currentQuestionIndex' = currentQuestionIndex - 1
    /\ pc' = "render"
    /\ UNCHANGED <<quizData, score, userAnswers, isQuizComplete, previousShuffleStates,
                   shuffledIndices, dom, inputTimeout, call, graderVars>>

previousQuestion ==
    /\ Interactive
    /\ IF currentQuestionIndex > 0
       THEN /\ currentQuestionIndex' = currentQuestionIndex - 1
            /\ pc' = "render"
       ELSE UNCHANGED <<currentQuestionIndex, pc>>
    /\ UNCHANGED <<quizData, score, userAnswers, isQuizComplete, previousShuffleStates,
                   shuffledIndices, dom, inputTimeout, call, graderVars>>

clearShuffleHistory ==
    /\ pc = "idle"
    /\ previousShuffleStates' = EmptyMap
    /\ UNCHANGED <<quizData, currentQuestionIndex, score, userAnswers, isQuizComplete,
                   shuffledIndices, dom, inputTimeout, pc, call, graderVars>>

\* ------------------------------------------------------------------------
\* The quizzes the session is run on
\* ------------------------------------------------------------------------
On(names) == [n \in names |-> TRUE]
Off(names) == [n \in names |-> FALSE]

MultipleChoice(n, correct, overrides) ==
    Question("multiple-choice", OptionLabels(n), Num(correct), <<>>, <<>>, Undefined,
             overrides)
MultipleAnswer(n, correct, overrides) ==
    Question("multiple-answer", OptionLabels(n), List(correct), <<>>, <<>>, Undefined,
             overrides)
TrueFalse(correct, overrides) ==
    Question("true-false", <<>>, Bool(correct), <<>>, <<>>, Undefined, overrides)
TextQuestion(type, correct, overrides) ==
    Question(type, <<>>, correct, <<>>, <<>>, Undefined, overrides)
Enumeration(slots, overrides) ==
    Question("enumeration", <<>>, List(slots), <<>>, <<>>, Undefined, overrides)
Matching(overrides) ==
    Question("matching", <<>>, Undefined, <<ItemX, ItemY>>, <<LabelA, LabelB>>,
             Map([k \in {LabelA, LabelB} |-> IF k = LabelA THEN ItemX ELSE ItemY]),
             overrides)

\* Shuffled choices and a shuffled True/False, by the quiz's own options.
QuizChoice ==
    [questions |-> <<MultipleChoice(3, 1, NoOverrides), TrueFalse(TRUE, NoOverrides)>>,
     options |-> On({"shuffleAnswers"})]

\* A shuffled multiple-answer question by override, and a text question.
QuizAnswer ==
    [questions |-> <<MultipleAnswer(2, <<1, 0>>, On({"shuffleAnswers"})),
                     TextQuestion("text", Str(Wa), NoOverrides)>>,
     options |-> NoOverrides]

\* Matching with both lists shuffled, and a True/False in fixed order.
QuizMatching ==
    [questions |-> <<Matching(On({"shuffleChoices", "shuffleMatches"})),
                     TrueFalse(TRUE, NoOverrides)>>,
     options |-> NoOverrides]

\* An enumeration in any order, and a choice in fixed order.
QuizEnumeration ==
    [questions |-> <<Enumeration(<<List(<<Wa, WA>>), Str(Wb)>>,
                                 Off({"orderSensitive"})),
                     MultipleChoice(2, 1, NoOverrides)>>,
     options |-> NoOverrides]

\* Matching with decoys, and a shuffled question with a single option.
QuizUnequal ==
    [questions |-> <<Matching(On({"unequalList"})),
                     MultipleChoice(1, 0, On({"shuffleAnswers"}))>>,
     options |-> NoOverrides]

\* Nothing shuffled, the quiz asking for it and a question overriding it.
QuizPlain ==
    [questions |-> <<MultipleChoice(2, 0, NoOverrides),
                     MultipleAnswer(2, <<1>>, Off({"shuffleAnswers"})),
                     TrueFalse(FALSE, NoOverrides)>>,
     options |-> Off({"shuffleAnswers"})]

\* A case-sensitive identification, an unknown type, a question without
\* options, an ordered enumeration.
QuizEdge ==
    [questions |-> <<TextQuestion("identification", List(<<Wa, Wb>>),
                                  On({"caseSensitive"})),
                     TextQuestion("essay", Str(Wa), NoOverrides),
                     MultipleChoice(0, 0, On({"shuffleAnswers"})),
                     Enumeration(<<Str(Wa)>>, NoOverrides)>>,
     options |-> NoOverrides]

\* A shuffled True/False, and a shuffled question with a single option.
QuizShort ==
    [questions |-> <<TrueFalse(TRUE, On({"shuffleAnswers"})),
                     MultipleChoice(1, 0, On({"shuffleAnswers"}))>>,
     options |-> NoOverrides]

\* A single question.
QuizSingle ==
    [questions |-> <<TrueFalse(FALSE, On({"shuffleAnswers"}))>>,
     options |-> NoOverrides]

\* Two shuffled questions of the same type, with lists of different lengths.
QuizTwoChoices ==
    [questions |-> <<MultipleChoice(3, 2, NoOverrides), MultipleChoice(2, 0, NoOverrides)>>,
     options |-> On({"shuffleAnswers"})]

Quizzes == {QuizChoice, QuizAnswer, QuizMatching, QuizEnumeration, QuizUnequal,
            QuizPlain, QuizEdge, QuizShort, QuizSingle, QuizTwoChoices}

\* ------------------------------------------------------------------------
\* The session
\* ------------------------------------------------------------------------
\* new QuizEngine(quizData), at init()'s call of renderQuestion.
Init ==
    /\ quizData \in Quizzes
    /\ Constructed(quizData, "render")
    /\ gQuestion = quizData.questions[1]
    /\ gUserAnswer = Undefined
    /\ gOptions = globalOptions(quizData)
    /\ gResult = "none"
    /\ gCalls = 0

Next ==
    \/ RenderQuestion
    \/ ShuffleDraw
    \/ RenderContinue
    \/ SelectRadio
    \/ ToggleCheckbox
    \/ TypeText
    \/ TypeEnumeration
    \/ DebounceFires
    \/ DropItem
    \/ RemoveItem
    \/ nextQuestion
    \/ previousQuestion
    \/ clearShuffleHistory

Spec == Init /\ [][Next]_vars

\* ------------------------------------------------------------------------
\* Properties of the session and of the shuffle state (checked under Spec)
\* ------------------------------------------------------------------------
optionsOf(i) == getQuestionOptions(quizData.questions[i + 1], globalOptions(quizData))

\* Question i has a recorded answer that the score update's test accepts as
\* one: neither null nor the empty string.
Answered(i) == i \in DOMAIN userAnswers /\ ~Falsy(userAnswers[i])

\* C1, as stated: each question changes the score at most once, decided by
\* the first answer submitted for it: once checkAnswer has run for the
\* displayed question, every later submission leaves the score unchanged.
C1_FirstSubmissionDecides ==
    [][(currentQuestionIndex \in DOMAIN userAnswers) => (score' = score)]_vars

\* The score counts the questions whose recorded answer is graded correct.
ScoreCountsRecorded ==
    score = Cardinality({i \in DOMAIN userAnswers :
                isAnswerCorrect(userAnswers[i], quizData.questions[i + 1],
                                optionsOf(i)) = "true"})

\* C1, amended: each question changes the score at most once, decided by the
\* first submission for it whose answer is neither null nor the empty
\* string: from then on every submission leaves the score and the recorded
\* answer unchanged; the score is the number of questions whose recorded
\* answer is correct, and a step that changes it adds one point for the
\* displayed question and leaves that question answered.
C1_FirstAnswerDecides ==
    /\ []ScoreCountsRecorded
    /\ [][/\ Answered(currentQuestionIndex) =>
                (score' = score /\ userAnswers' = userAnswers)
          /\ score' # score =>
                /\ score' = score + 1
                /\ currentQuestionIndex' = currentQuestionIndex
                /\ Answered(currentQuestionIndex)']_vars

\* The first answer to a radio question was wrong; the correct option is
\* selected now, its submission has run, and the score is still 0.
C1_Witness ==
    /\ pc = "idle"
    /\ dom.kind = "radio"
    /\ Answered(currentQuestionIndex)
    /\ isAnswerCorrect(userAnswers[currentQuestionIndex], currentQuestion,
                       currentOptions) = "false"
    /\ isAnswerCorrect(getUserAnswer(currentQuestion.type, dom), currentQuestion,
                       currentOptions) = "true"
    /\ score = 0

IsPermutation(seq, n) == Len(seq) = n /\ Range(seq) = 0..(n - 1)

ShuffleReturned == pc = "returned" /\ call.fn = "array"

\* C2: for a list of N >= 2 items and a key that holds a permutation P, the
\* call returns a permutation Q of 0..N-1 with Q # P, unless the loop ran to
\* maxAttempts draws and every one of them equalled P.
C2_ShuffleDiffers ==
    (ShuffleReturned /\ call.n >= 2 /\ call.prior.t = "list") =>
        /\ IsPermutation(call.result.v, call.n)
        /\ \/ call.result.v # call.prior.v
           \/ call.exhausted /\ call.allEqualPrior

\* A call for three items whose key held a permutation returns another one.
C2_Witness ==
    /\ ShuffleReturned
    /\ call.n = 3
    /\ call.prior.t = "list"
    /\ call.result.v # call.prior.v

\* C3: when an orientation is recorded for the key, shuffleTrueFalseDifferently
\* returns and records its opposite, whatever the random source returns.
C3_TrueFalseAlternates ==
    (pc = "returned" /\ call.fn = "tf" /\ call.prior.t # "undefined") =>
        /\ call.prior.t = "bool"
        /\ call.result = Bool(~call.prior.v)
        /\ previousShuffleStates[call.stateKey] = call.result
        /\ \A k \in RandomValues : nextTrueFirst(call.prior, k) = ~call.prior.v

\* A call that found false-first recorded returns true-first.
C3_Witness ==
    /\ pc = "returned"
    /\ call.fn = "tf"
    /\ call.prior = Bool(FALSE)
    /\ call.result = Bool(TRUE)

\* C4: for a list of N <= 1 items shuffleArrayDifferently returns the
\* identity permutation and leaves every entry of previousShuffleStates as it
\* was, an absent entry absent.
C4_ShortListUntouched ==
    /\ []((ShuffleReturned /\ call.n <= 1) =>
             /\ call.result = List(identityIndices(call.n))
             /\ Lookup(previousShuffleStates, call.stateKey) = call.prior)
    /\ [][(call'.fn = "array" /\ call'.n <= 1) =>
             (previousShuffleStates' = previousShuffleStates)]_vars

\* A call for a single option has returned while another key holds a value
\* and the call's own key holds none.
C4_Witness ==
    /\ ShuffleReturned
    /\ call.n = 1
    /\ call.result = List(<<0>>)
    /\ previousShuffleStates # EmptyMap
    /\ call.stateKey \notin DOMAIN previousShuffleStates

\* C13: when the effective shuffleAnswers option is false, a rendered
\* MultipleChoice or MultipleAnswer question shows its options in canonical
\* order, each input carrying its own index, a rendered TrueFalse question
\* shows [True, False], and the rendering leaves previousShuffleStates
\* unchanged.
C13_FixedOrderWhenNotShuffled ==
    /\ []((pc = "idle" /\ ~isQuizComplete /\ ~currentOptions.shuffleAnswers) =>
             /\ currentQuestion.type \in {"multiple-choice", "multiple-answer"} =>
                   /\ dom.labels = currentQuestion.options
                   /\ dom.values = [p \in DOMAIN currentQuestion.options |->
                                       numToString(p - 1)]
             /\ currentQuestion.type = "true-false" =>
                   /\ dom.labels = << <<"T","r","u","e">>, <<"F","a","l","s","e">> >>
                   /\ dom.values = << <<"t","r","u","e">>, <<"f","a","l","s","e">> >>)
    /\ [][(/\ pc = "render"
           /\ currentQuestion.type \in {"multiple-choice", "multiple-answer", "true-false"}
           /\ ~currentOptions.shuffleAnswers) =>
              (previousShuffleStates' = previousShuffleStates /\ pc' = "idle")]_vars

\* A True/False question is shown in fixed order while the history of
\* another question's shuffles is recorded and a choice question of the same
\* kind of quiz is shown in canonical order.
C13_Witness ==
    /\ pc = "idle"
    /\ ~isQuizComplete
    /\ ~currentOptions.shuffleAnswers
    /\ currentQuestion.type = "true-false"
    /\ dom.labels = << <<"T","r","u","e">>, <<"F","a","l","s","e">> >>
    /\ previousShuffleStates # EmptyMap

\* The prefixes of the state keys of a question type.
ComponentPrefixes(type) ==
    CASE type = "multiple-choice" -> {<<"m","c","_">>}
      [] type = "multiple-answer" -> {<<"m","a","_">>}
      [] type = "true-false" -> {<<"t","f","_">>}
      [] type = "matching" ->
            {<<"m","a","t","c","h","i","n","g","_","i","t","e","m","s","_">>,
             <<"m","a","t","c","h","i","n","g","_","m","a","t","c","h","e","s","_">>}
      [] OTHER -> {}

\* The state keys of question i: its components' prefixes, then its index.
OwnKeys(i) ==
    {p \o numToString(i) : p \in ComponentPrefixes(quizData.questions[i + 1].type)}

\* The list a component of question q shuffles.
ListFor(q, prefix) ==
    CASE prefix \in {<<"m","c","_">>, <<"m","a","_">>} -> q.options
      [] prefix = <<"m","a","t","c","h","i","n","g","_","i","t","e","m","s","_">> -> q.items
      [] OTHER -> q.matches

\* The entry under key k is a value produced for k's own component and
\* question: an orientation for a True/False key, a permutation of the
\* component's list otherwise.
EntryProducedFor(k) ==
    \E i \in 0..(Len(quizData.questions) - 1) :
        \E p \in ComponentPrefixes(quizData.questions[i + 1].type) :
            /\ k = p \o numToString(i)
            /\ IF p = <<"t","f","_">>
               THEN previousShuffleStates[k].t = "bool"
               ELSE /\ previousShuffleStates[k].t = "list"
                    /\ IsPermutation(previousShuffleStates[k].v,
                                     Len(ListFor(quizData.questions[i + 1], p)))

\* C14: a step writes only previousShuffleStates entries whose key is made of
\* the displayed question's own component and index and leaves every other
\* entry as it was; the keys of different questions differ; every entry was
\* produced for its own key, and the loop of shuffleArrayDifferently compares
\* with the entry of the displayed question's key.
C14_HistoriesDoNotCollide ==
    /\ [](/\ \A k \in DOMAIN previousShuffleStates : EntryProducedFor(k)
          /\ \A i, j \in 0..(Len(quizData.questions) - 1) :
                i # j => OwnKeys(i) \cap OwnKeys(j) = {}
          /\ pc = "shuffle" =>
                /\ call.stateKey \in OwnKeys(currentQuestionIndex)
                /\ call.prior = Lookup(previousShuffleStates, call.stateKey))
    /\ [][\A k \in DOMAIN previousShuffleStates' :
              Lookup(previousShuffleStates, k) # previousShuffleStates'[k] =>
                  k \in OwnKeys(currentQuestionIndex)]_vars

\* A question's list has been shuffled again, the entry of another question
\* of the same type being recorded.
C14_Witness ==
    /\ ShuffleReturned
    /\ call.n >= 2
    /\ call.prior.t = "list"
    /\ call.result # call.prior
    /\ \E j \in 0..(Len(quizData.questions) - 1) :
          /\ j # currentQuestionIndex
          /\ quizData.questions[j + 1].type = currentQuestion.type
          /\ OwnKeys(j) \cap DOMAIN previousShuffleStates # {}

\* C15, as stated: every shuffleArrayDifferently call makes at most
\* maxAttempts draws and the permutation it returns is the one stored in
\* previousShuffleStates under the state key.
C15_EveryCallStoresResult ==
    /\ pc = "shuffle" => call.attempts < maxAttempts
    /\ ShuffleReturned => Lookup(previousShuffleStates, call.stateKey) = call.result

\* C15, amended: a call for a list of two or more items makes at most
\* maxAttempts draws, whatever the random source returns (a draw is made only
\* after fewer than maxAttempts draws, and the draw numbered maxAttempts ends
\* the loop); the permutation it returns is the draw of its last iteration and
\* is the value stored under the state key.  A call for a shorter list makes
\* no draw and stores nothing.
C15_BoundedDrawsStoreLast ==
    /\ [](/\ pc = "shuffle" => (call.n >= 2 /\ call.attempts < maxAttempts)
          /\ (ShuffleReturned /\ call.n >= 2) =>
                Lookup(previousShuffleStates, call.stateKey) = call.result
          /\ (ShuffleReturned /\ call.n <= 1) =>
                Lookup(previousShuffleStates, call.stateKey) = call.prior)
    /\ [][pc = "shuffle" =>
             /\ call.attempts = maxAttempts - 1 => pc' = "returned"
             /\ pc' = "shuffle" => (/\ call'.attempts = call.attempts + 1
                                    /\ call'.newIndices = call.prior.v
                                    /\ previousShuffleStates' = previousShuffleStates)
             /\ pc' = "returned" =>
                   /\ \E rs \in [1..(call.n - 1) -> RandomValues] :
                         call'.result = List(shuffleArray(identityIndices(call.n), rs))
                   /\ previousShuffleStates'[call.stateKey] = call'.result]_vars

\* A call has made maxAttempts draws, each equal to the stored permutation,
\* and has returned and stored the last of them.
C15_Witness ==
    /\ ShuffleReturned
    /\ call.n >= 2
    /\ call.exhausted
    /\ call.result = call.prior
    /\ previousShuffleStates[call.stateKey] = call.result

\* The key of shuffledIndices a choice question's mapping is recorded under.
mappingKey ==
    IF currentQuestion.type = "multiple-choice" THEN mcKey(currentQuestionIndex)
    ELSE maKey(currentQuestionIndex)

ChoiceShown ==
    /\ pc = "idle"
    /\ ~isQuizComplete
    /\ currentQuestion.type \in {"multiple-choice", "multiple-answer"}

\* The grade of the answer read from the inputs when the positions S are
\* checked.
gradeOfChecked(S) ==
    isAnswerCorrect(getUserAnswer(currentQuestion.type, [dom EXCEPT !.checked = S]),
                    currentQuestion, currentOptions)

\* C16: for a shown MultipleChoice or MultipleAnswer question with N options,
\* shuffled or not, the recorded index mapping is a permutation of 0..N-1,
\* position p shows the option whose canonical index is the mapping's p-th
\* entry and its input carries that index, so that a selection is graded
\* correct exactly when the options the user sees selected are the correct
\* ones.
C16_MappingIsPermutation ==
    ChoiceShown =>
        /\ mappingKey \in DOMAIN shuffledIndices
        /\ shuffledIndices[mappingKey].t = "list"
        /\ LET m == shuffledIndices[mappingKey].v
               opts == currentQuestion.options
           IN  /\ IsPermutation(m, Len(opts))
               /\ Len(dom.labels) = Len(opts)
               /\ Len(dom.values) = Len(opts)
               /\ \A c \in DOMAIN opts :
                     Cardinality({p \in DOMAIN dom.labels : dom.labels[p] = opts[c]}) = 1
               /\ \A p \in DOMAIN m :
                     /\ dom.labels[p] = opts[m[p] + 1]
                     /\ parseInt(Str(dom.values[p])) = Num(m[p])
               /\ currentQuestion.type = "multiple-choice" =>
                     \A p \in DOMAIN dom.labels :
                        gradeOfChecked({p}) = "true" <=>
                            /\ currentQuestion.correctAnswer.v + 1 \in DOMAIN opts
                            /\ dom.labels[p] = opts[currentQuestion.correctAnswer.v + 1]
               /\ currentQuestion.type = "multiple-answer" =>
                     \A S \in SUBSET DOMAIN dom.labels :
                        gradeOfChecked(S) = "true" <=>
                            {dom.labels[p] : p \in S} =
                               {opts[c + 1] : c \in Range(currentQuestion.correctAnswer.v)}

\* Three options are shown in another order than the canonical one, the
\* correct one is selected at a position other than its canonical one, and
\* the point has been added.
C16_Witness ==
    /\ ChoiceShown
    /\ Len(currentQuestion.options) = 3
    /\ shuffledIndices[mappingKey].v # identityIndices(3)
    /\ \E p \in DOMAIN dom.labels :
          /\ dom.checked = {p}
          /\ p # currentQuestion.correctAnswer.v + 1
          /\ gradeOfChecked({p}) = "true"
    /\ score = 1

\* C17: a grading run scheduled by input on another question records no
\* answer for the displayed question and does not change the score.  A timer
\* that expires while the displayed question has no text input was started
\* on another question: the step leaves the score as it was and does not
\* make the displayed question an answered one.
C17_StaleTimerRecordsNothing ==
    [][(inputTimeout /\ ~inputTimeout' /\ dom.kind \notin {"text", "enumeration"}) =>
          /\ score' = score
          /\ Answered(currentQuestionIndex)' => Answered(currentQuestionIndex)]_vars

\* Every entry of the recorded answer is a correct one: for the question
\* types whose every selection or drop is submitted at once, the selected
\* indices are correct indices and the dropped pairs are correct pairs.
OnlyCorrectEntries(recorded, q) ==
    CASE q.type = "multiple-answer" ->
            /\ recorded.t = "list"
            /\ Range(recorded.v) \subseteq Range(q.correctAnswer.v)
      [] q.type = "matching" ->
            /\ recorded.t = "map"
            /\ \A k \in DOMAIN recorded.v :
                  /\ k \in DOMAIN q.correctMatches.v
                  /\ recorded.v[k] = q.correctMatches.v[k]
      [] OTHER -> TRUE

\* The answer recorded for question i is graded correct: the question has
\* added its point.
PointAdded(i) ==
    /\ i \in DOMAIN userAnswers
    /\ isAnswerCorrect(userAnswers[i], quizData.questions[i + 1], optionsOf(i)) = "true"

\* C18: selecting options one at a time, or dropping items one at a time,
\* leads to the point: when the user has entered only correct entries on a
\* MultipleAnswer or Matching question and the inputs hold the complete
\* correct answer, the question has added one point.
C18_CorrectEntriesScore ==
    (/\ pc = "idle"
     /\ ~isQuizComplete
     /\ currentQuestion.type \in {"multiple-answer", "matching"}
     /\ currentQuestionIndex \in DOMAIN userAnswers
     /\ OnlyCorrectEntries(userAnswers[currentQuestionIndex], currentQuestion)
     /\ isAnswerCorrect(getUserAnswer(currentQuestion.type, dom), currentQuestion,
                        currentOptions) = "true")
        => PointAdded(currentQuestionIndex)

\* A question whose answer key has two or more entries, each entered by an
\* interaction that is submitted at once.
TwoEntryQuestion(q) ==
    \/ q.type = "multiple-answer" /\ Cardinality(Range(q.correctAnswer.v)) >= 2
    \/ q.type = "matching" /\ Cardinality(DOMAIN q.correctMatches.v) >= 2

\* No state is reached in which such a question has added its point.
TwoEntryQuestionsNeverScore ==
    \A i \in 0..(Len(quizData.questions) - 1) :
        TwoEntryQuestion(quizData.questions[i + 1]) => ~PointAdded(i)

LastIndex == Len(quizData.questions) - 1

\* C19: currentQuestionIndex stays within 0..N-1; a step changes it by one
\* and only within the range, so previousQuestion at 0 and nextQuestion at
\* N-1 leave it unchanged; isQuizComplete is set only at index N-1, by a step
\* that leaves the index; a step that changes the index or the flag leaves
\* score and userAnswers unchanged.
C19_NavigationBounded ==
    /\ [](currentQuestionIndex \in 0..LastIndex)
    /\ [][/\ currentQuestionIndex' # currentQuestionIndex =>
                /\ currentQuestionIndex' \in {currentQuestionIndex - 1,
                                              currentQuestionIndex + 1}
                /\ currentQuestionIndex' \in 0..LastIndex
                /\ isQuizComplete' = isQuizComplete
                /\ score' = score
                /\ userAnswers' = userAnswers
          /\ isQuizComplete' # isQuizComplete =>
                /\ isQuizComplete'
                /\ currentQuestionIndex = LastIndex
                /\ currentQuestionIndex' = currentQuestionIndex
                /\ score' = score
                /\ userAnswers' = userAnswers
          /\ (pc = "idle" /\ pc' = "render") =>
                /\ currentQuestionIndex' # currentQuestionIndex
                /\ score' = score
                /\ userAnswers' = userAnswers]_vars

\* The quiz of two or more questions is complete at its last index, the
\* first question having been scored and left.
C19_Witness ==
    /\ isQuizComplete
    /\ LastIndex >= 1
    /\ currentQuestionIndex = LastIndex
    /\ PointAdded(0)
    /\ score >= 1

\* ------------------------------------------------------------------------
\* The grader applied to its whole input domain
\* ------------------------------------------------------------------------
InitGrader ==
    /\ gQuestion \in GraderQuestions
    /\ gUserAnswer \in GraderAnswers(gQuestion)
    /\ gOptions \in {[DefaultOptions EXCEPT !.caseSensitive = cs, !.orderSensitive = os] :
                        cs \in BOOLEAN, os \in BOOLEAN}
    /\ gResult = "none"
    /\ gCalls = 0
    /\ Constructed([questions |-> <<gQuestion>>, options |-> gOptions], "idle")

\* A grader whose second call with the same arguments answers from what the
\* first call left behind.
GradeRemembering ==
    /\ gCalls < MaxCalls
    /\ gCalls' = gCalls + 1
    /\ gResult' = IF gCalls = 0 THEN isAnswerCorrect(gUserAnswer, gQuestion, gOptions)
                  ELSE "false"
    /\ userAnswers' = Store(userAnswers, 0, gUserAnswer)
    /\ UNCHANGED <<gQuestion, gUserAnswer, gOptions, quizData, currentQuestionIndex,
                   score, isQuizComplete, previousShuffleStates, shuffledIndices, dom,
                   inputTimeout, pc, call>>

\* let isCorrect = this.isAnswerCorrect(userAnswer, question, questionOptions):
\* the function reads its arguments and assigns to no field and to no
\* argument.
Grade ==
    /\ gCalls < MaxCalls
    /\ gCalls' = gCalls + 1
    /\ gResult' = isAnswerCorrect(gUserAnswer, gQuestion, gOptions)
    /\ UNCHANGED <<gQuestion, gUserAnswer, gOptions, sessionVars>>

NextGrader == Grade

SpecGrader == InitGrader /\ [][NextGrader]_vars

Graded(type) == gResult # "none" /\ gQuestion.type = type

\* Two strings that differ at most in the case of their letters, stated
\* position by position.
SameLetter(c, d) ==
    \/ c = d
    \/ \E i \in DOMAIN UpperLetters :
          {c, d} = {UpperLetters[i], LowerLetters[i]}

SameIgnoringCase(a, b) ==
    Len(a) = Len(b) /\ \A i \in DOMAIN a : SameLetter(a[i], b[i])

\* The case policy: exact when caseSensitive, case-folded otherwise.
EqualUnderPolicy(a, b) ==
    IF gOptions.caseSensitive THEN a = b ELSE SameIgnoringCase(a, b)

\* User string u satisfies a slot (a single string or a set of strings).
Satisfies(u, slot) ==
    IF slot.t = "list"
    THEN \E i \in DOMAIN slot.v : EqualUnderPolicy(slot.v[i], u)
    ELSE EqualUnderPolicy(slot.v, u)

\* ------------------------------------------------------------------------
\* Properties of the grader (checked under SpecGrader)
\* ------------------------------------------------------------------------
\* The user answers can be assigned to pairwise distinct slots, each answer
\* satisfying its slot.
ExistsMatching(userAnswer, slots) ==
    \E f \in [DOMAIN userAnswer -> DOMAIN slots] :
        /\ \A u1, u2 \in DOMAIN userAnswer : u1 # u2 => f[u1] # f[u2]
        /\ \A u \in DOMAIN userAnswer : Satisfies(userAnswer[u], slots[f[u]])

UnorderedEnumerationGraded ==
    /\ Graded("enumeration")
    /\ ~gOptions.orderSensitive
    /\ gUserAnswer.t = "list"
    /\ Len(gUserAnswer.v) > 0

\* C5: an order-insensitive Enumeration answer (non-empty) is graded correct
\* exactly when the user answers can be assigned to pairwise distinct slots
\* that they satisfy, also when slots share an acceptable string.
C5_UnorderedIsMatching ==
    UnorderedEnumerationGraded =>
        (gResult = "true" <=> ExistsMatching(gUserAnswer.v, gQuestion.correctAnswer.v))

\* C6: a MultipleAnswer answer is graded correct exactly when the set of
\* selected indices equals the set of correct indices, in whatever order the
\* indices are listed; strict subsets and supersets are incorrect.
C6_MultipleAnswerSetEquality ==
    (Graded("multiple-answer") /\ gUserAnswer.t = "list") =>
        /\ gResult = "true" <=> Range(gUserAnswer.v) = Range(gQuestion.correctAnswer.v)
        /\ (/\ Range(gUserAnswer.v) # Range(gQuestion.correctAnswer.v)
            /\ \/ Range(gUserAnswer.v) \subseteq Range(gQuestion.correctAnswer.v)
               \/ Range(gQuestion.correctAnswer.v) \subseteq Range(gUserAnswer.v))
           => gResult = "false"

\* The same two indices selected in the other order are graded correct.
C6_Witness ==
    /\ Graded("multiple-answer")
    /\ gUserAnswer.t = "list"
    /\ Len(gUserAnswer.v) = 2
    /\ gUserAnswer.v # gQuestion.correctAnswer.v
    /\ gResult = "true"

\* An entry of the mapping involves a decoy match or a decoy item.
InvolvesDecoy(f) ==
    \E k \in DOMAIN f : k \in Range(dummyMatches) \/ f[k] \in Range(dummyItems)

\* C7: a Matching answer is graded correct exactly when the user's mapping
\* has the key set of correctMatches and maps every key to the same item; a
\* mapping with a missing entry, an extra entry or an entry involving a decoy
\* is incorrect.
C7_MatchingExactMapping ==
    (Graded("matching") /\ gUserAnswer.t = "map" /\ gQuestion.correctMatches.t = "map") =>
        /\ gResult = "true" <=>
              /\ DOMAIN gUserAnswer.v = DOMAIN gQuestion.correctMatches.v
              /\ \A k \in DOMAIN gQuestion.correctMatches.v :
                    gUserAnswer.v[k] = gQuestion.correctMatches.v[k]
        /\ InvolvesDecoy(gUserAnswer.v) => gResult = "false"

\* Both correct pairs are present and a drop on a decoy match is added: the
\* answer is graded incorrect.
C7_Witness ==
    /\ Graded("matching")
    /\ gQuestion.correctMatches.t = "map"
    /\ DOMAIN gQuestion.correctMatches.v = {LabelA, LabelB}
    /\ gUserAnswer.t = "map"
    /\ DOMAIN gUserAnswer.v = {LabelA, LabelB, dummyMatches[1]}
    /\ \A k \in {LabelA, LabelB} : gUserAnswer.v[k] = gQuestion.correctMatches.v[k]
    /\ gResult = "false"

\* C8: an Identification or Text answer is graded correct exactly when the
\* user string is non-empty and equals correctAnswer, or one of its members,
\* under the case policy; an empty or absent user string is incorrect.
C8_TextEquality ==
    (gResult # "none" /\ gQuestion.type \in {"identification", "text"}) =>
        /\ gResult = "true" <=>
              /\ gUserAnswer.t = "str"
              /\ gUserAnswer.v # <<>>
              /\ Satisfies(gUserAnswer.v, gQuestion.correctAnswer)
        /\ (gUserAnswer.t # "str" \/ gUserAnswer.v = <<>>) => gResult = "false"

\* A user string that differs in case from every acceptable member is graded
\* correct when caseSensitive is false.
C8_Witness ==
    /\ gResult = "true"
    /\ gQuestion.type = "identification"
    /\ ~gOptions.caseSensitive
    /\ gQuestion.correctAnswer.t = "list"
    /\ Len(gQuestion.correctAnswer.v) = 2
    /\ gUserAnswer.v \notin Range(gQuestion.correctAnswer.v)

OrderedEnumerationGraded ==
    /\ Graded("enumeration")
    /\ gOptions.orderSensitive
    /\ gUserAnswer.t = "list"

PositionsSatisfied ==
    /\ Len(gUserAnswer.v) = Len(gQuestion.correctAnswer.v)
    /\ \A i \in DOMAIN gUserAnswer.v :
          Satisfies(gUserAnswer.v[i], gQuestion.correctAnswer.v[i])

\* C9, as stated: an order-sensitive Enumeration answer is graded correct
\* exactly when it has the length of the slot list and every position
\* satisfies its slot under the case policy.
C9_OrderedAsStated ==
    OrderedEnumerationGraded => (gResult = "true" <=> PositionsSatisfied)

\* C9, amended: ... exactly when the user answer list is non-empty, has the
\* length of the slot list and every position satisfies its slot; an empty
\* user answer list is incorrect, also for an empty slot list.
C9_OrderedNonEmpty ==
    OrderedEnumerationGraded =>
        (gResult = "true" <=> (Len(gUserAnswer.v) > 0 /\ PositionsSatisfied))

\* Two answers, one of them accepted by a slot with a set of strings.
C9_Witness ==
    /\ OrderedEnumerationGraded
    /\ gResult = "true"
    /\ Len(gUserAnswer.v) = 2
    /\ \E i \in DOMAIN gQuestion.correctAnswer.v : gQuestion.correctAnswer.v[i].t = "list"

\* A null selection, an empty text, an empty list, a missing or null mapping.
AbsentAnswer(userAnswer) ==
    \/ userAnswer.t \in {"null", "undefined"}
    \/ userAnswer.t = "str" /\ userAnswer.v = <<>>
    \/ userAnswer.t = "list" /\ userAnswer.v = <<>>

\* C10: for every question type, an unknown one included, an absent or
\* malformed user answer is graded incorrect, and grading never throws.
C10_AbsentIsIncorrect ==
    (gResult # "none" /\ AbsentAnswer(gUserAnswer)) => gResult = "false"

\* An index outside 0..(number of options - 1).
IndexOutOfRange(i) == i < 0 \/ i >= Len(gQuestion.options)

\* C11: for MultipleChoice and MultipleAnswer questions, whenever the user's
\* index or any index of correctAnswer lies outside 0..(number of options - 1),
\* isAnswerCorrect returns false, and it does not throw.
C11_OutOfRangeIsIncorrect ==
    /\ (/\ Graded("multiple-choice")
        /\ \/ /\ parseInt(gUserAnswer).t = "num"
              /\ IndexOutOfRange(parseInt(gUserAnswer).v)
           \/ IndexOutOfRange(gQuestion.correctAnswer.v))
          => gResult = "false"
    /\ (/\ Graded("multiple-answer")
        /\ \/ /\ gUserAnswer.t = "list"
              /\ \E i \in DOMAIN gUserAnswer.v : IndexOutOfRange(gUserAnswer.v[i])
           \/ \E i \in DOMAIN gQuestion.correctAnswer.v :
                 IndexOutOfRange(gQuestion.correctAnswer.v[i]))
          => gResult = "false"

====
